---------------------------- MODULE Spec2Model ----------------------------
(***************************************************************************)
(* Model of arkham_horror_mcp/server.py: the in-memory scenario cache      *)
(* (cached_scenarios guarded by cache_lock), the scraper that fills it,    *)
(* and the handlers that read it (GET /scenarios, GET /scenarios/{id},     *)
(* GET /search, list_resources, read_resource).                            *)
(*                                                                         *)
(* Strings are sequences of one-character strings.  A URL is kept as the   *)
(* sequence of its "/"-separated segments, i.e. as href.split("/"), which  *)
(* determines the string.  Floats in [0,1] are kept as exact fractions or, *)
(* once rounded to two decimals, as integer hundredths.                    *)
(***************************************************************************)
EXTENDS Integers, Sequences, FiniteSets, TLC

(***************************************************************************)
(* Bounds of the model.                                                    *)
(***************************************************************************)
NumTasks == 2      \* concurrent request tasks
MaxFailures == 2   \* fetches that store nothing before one must succeed
ManyMatches == 75  \* length of the longest page and of the longest card list

Tasks == 1..NumTasks

(***************************************************************************)
(* String helpers: str.lower(), int(), startswith, substring test.         *)
(***************************************************************************)
\* str.lower() of each upper-case letter
LowerOf ==
    ("A" :> "a") @@ ("B" :> "b") @@ ("C" :> "c") @@ ("D" :> "d")
    @@ ("E" :> "e") @@ ("F" :> "f") @@ ("G" :> "g") @@ ("H" :> "h")
    @@ ("I" :> "i") @@ ("J" :> "j") @@ ("K" :> "k") @@ ("L" :> "l")
    @@ ("M" :> "m") @@ ("N" :> "n") @@ ("O" :> "o") @@ ("P" :> "p")
    @@ ("Q" :> "q") @@ ("R" :> "r") @@ ("S" :> "s") @@ ("T" :> "t")
    @@ ("U" :> "u") @@ ("V" :> "v") @@ ("W" :> "w") @@ ("X" :> "x")
    @@ ("Y" :> "y") @@ ("Z" :> "z")

\* r.get(k, default)
Get(r, k, default) == IF k \in DOMAIN r THEN r[k] ELSE default

LowerChar(c) == Get(LowerOf, c, c)

\* the value a table of <<key, value>> pairs holds for key, else default
Memo(table, key, default) ==
    IF \E e \in table : e[1] = key
    THEN (CHOOSE e \in table : e[1] = key)[2]
    ELSE default

Lower(s) == [i \in 1..Len(s) |-> LowerChar(s[i])]

Digits == <<"0","1","2","3","4","5","6","7","8","9">>

IsDigit(c) == \E i \in 1..10 : Digits[i] = c

DigitVal(c) == (CHOOSE i \in 1..10 : Digits[i] = c) - 1

RECURSIVE ParseInt(_)
ParseInt(s) ==
    IF s = <<>> THEN 0
    ELSE 10 * ParseInt(SubSeq(s, 1, Len(s) - 1)) + DigitVal(s[Len(s)])

IsSpace(c) == c = " "

IsDash(c) == c \in {"-", "~"}   \* "~" stands for the en dash of [-–]

\* w occurs in s starting at position i
MatchAt(s, i, w) ==
    /\ i >= 1
    /\ i + Len(w) - 1 <= Len(s)
    /\ SubSeq(s, i, i + Len(w) - 1) = w

\* Python's  w in s
Contains(s, w) == \E i \in 1..(Len(s) + 1) : MatchAt(s, i, w)

StartsWith(s, w) == MatchAt(s, 1, w)

(***************************************************************************)
(* re.search(r'(\d+)[-–](\d+)\s+players?', title, re.IGNORECASE)           *)
(* A match starting at i: a digit run i..j-1, a dash at j, a digit run     *)
(* j+1..k-1, one or more spaces k..m-1 and "player" at m.  Every           *)
(* quantifier is greedy and each run is delimited by a character outside   *)
(* its class, so both runs are maximal to the right.                       *)
(***************************************************************************)
Player == <<"p","l","a","y","e","r">>

\* end (exclusive) of the maximal run of characters satisfying a class from i
RECURSIVE DigitRunEnd(_, _)
DigitRunEnd(s, i) ==
    IF i <= Len(s) /\ IsDigit(s[i]) THEN DigitRunEnd(s, i + 1) ELSE i

RECURSIVE SpaceRunEnd(_, _)
SpaceRunEnd(s, i) ==
    IF i <= Len(s) /\ IsSpace(s[i]) THEN SpaceRunEnd(s, i + 1) ELSE i

\* \s+players? with the spaces k..m-1
PlayersAt(s, k, m) == m > k /\ MatchAt(Lower(s), m, Player)

\* (\d+)\s+players? with the digits j+1..k-1
SecondCountAt(s, j, k) == k > j + 1 /\ PlayersAt(s, k, SpaceRunEnd(s, k))

\* [-~](\d+)\s+players? after the digits i..j-1
DashAt(s, i, j) ==
    /\ j > i
    /\ j <= Len(s) /\ IsDash(s[j])
    /\ SecondCountAt(s, j, DigitRunEnd(s, j + 1))

PlayerMatchAt(s, i) == DashAt(s, i, DigitRunEnd(s, i))

HasPlayerCount(s) == \E i \in 1..Len(s) : PlayerMatchAt(s, i)

\* the least position of a non-empty set of positions
Leftmost(positions) == CHOOSE i \in positions : \A h \in positions : i <= h

\* leftmost match, as re.search returns it
PlayerMatchPos(s) == Leftmost({ i \in 1..Len(s) : PlayerMatchAt(s, i) })

\* int() of the digit run that starts at i
CountAt(s, i) == ParseInt(SubSeq(s, i, DigitRunEnd(s, i) - 1))

PlayerGroup1(s) == CountAt(s, PlayerMatchPos(s))

PlayerGroup2(s) == CountAt(s, DigitRunEnd(s, PlayerMatchPos(s)) + 1)

(***************************************************************************)
(* re.search(r'(easy|standard|hard|expert)', title, re.IGNORECASE)         *)
(***************************************************************************)
DifficultyWords ==
    { <<"e","a","s","y">>, <<"s","t","a","n","d","a","r","d">>,
      <<"h","a","r","d">>, <<"e","x","p","e","r","t">> }

DifficultyAt(s, i) == \E w \in DifficultyWords : MatchAt(Lower(s), i, w)

HasDifficulty(s) == \E i \in 1..Len(s) : DifficultyAt(s, i)

\* the word matched at i, in lower case
DifficultyWordAt(s, i) == CHOOSE w \in DifficultyWords : MatchAt(Lower(s), i, w)

\* group(1).lower() of the leftmost match
DifficultyOf(s) ==
    DifficultyWordAt(s, Leftmost({ i \in 1..Len(s) : DifficultyAt(s, i) }))

(***************************************************************************)
(* difflib.SequenceMatcher(None, a, b).ratio() for strings shorter than    *)
(* 200 characters (no junk, no autojunk): the matching blocks are the      *)
(* longest common block, then recursively those to its left and right.     *)
(***************************************************************************)
\* a[i+1..i+k] = b[j+1..j+k], with 0-based offsets i, j as in difflib
BlockAt(a, b, i, j, k) == \A d \in 1..k : a[i + d] = b[j + d]

\* the blocks <<i, j, k>> inside a[alo..ahi) x b[blo..bhi), empty ones included
Blocks(a, b, alo, ahi, blo, bhi) ==
    { m \in (alo..ahi) \X (blo..bhi) \X (0..(ahi - alo)) :
        /\ m[1] + m[3] <= ahi
        /\ m[2] + m[3] <= bhi
        /\ BlockAt(a, b, m[1], m[2], m[3]) }

\* m is longer than n or, as long as n, starts no later in a, then in b
Precedes(m, n) ==
    \/ m[3] > n[3]
    \/ m[3] = n[3] /\ m[1] < n[1]
    \/ m[3] = n[3] /\ m[1] = n[1] /\ m[2] <= n[2]

First(blocks) == CHOOSE m \in blocks : \A n \in blocks : Precedes(m, n)

\* find_longest_match: of the longest blocks the one earliest in a, then in b
find_longest_match(a, b, alo, ahi, blo, bhi) ==
    First(Blocks(a, b, alo, ahi, blo, bhi))

\* sum of the sizes of get_matching_blocks()
RECURSIVE MatchedChars(_, _, _, _, _, _)
RECURSIVE MatchedAround(_, _, _, _, _, _, _)
\* the block m and the matching blocks to its left and to its right
MatchedAround(a, b, alo, ahi, blo, bhi, m) ==
    IF m[3] = 0 THEN 0
    ELSE m[3]
         + MatchedChars(a, b, alo, m[1], blo, m[2])
         + MatchedChars(a, b, m[1] + m[3], ahi, m[2] + m[3], bhi)

MatchedChars(a, b, alo, ahi, blo, bhi) ==
    IF alo >= ahi \/ blo >= bhi THEN 0
    ELSE MatchedAround(a, b, alo, ahi, blo, bhi,
                       find_longest_match(a, b, alo, ahi, blo, bhi))

\* similarity(a, b) as the fraction <<numerator, denominator>>;
\* ratio() is 1.0 when both strings are empty
Ratio(la, lb) ==
    IF Len(la) + Len(lb) = 0 THEN <<1, 1>>
    ELSE <<2 * MatchedChars(la, lb, 0, Len(la), 0, Len(lb)), Len(la) + Len(lb)>>

similarity(a, b) == Ratio(Lower(a), Lower(b))

\* variant: the threshold is exclusive
SimAtLeast_Strict(sim, minSim) == sim[1] * 100 > minSim * sim[2]

\* sim_score >= min_similarity, min_similarity given in hundredths
SimAtLeast(sim, minSim) == sim[1] * 100 >= minSim * sim[2]

\* round(sim_score, 2) in hundredths; an exact tie goes to the even neighbour
HalfEven(q, r, den) ==
    IF 2 * r > den THEN q + 1
    ELSE IF 2 * r < den THEN q
    ELSE IF q % 2 = 0 THEN q ELSE q + 1

Round2(sim) ==
    HalfEven((sim[1] * 100) \div sim[2], (sim[1] * 100) % sim[2], sim[2])

(***************************************************************************)
(* fetch_arkham_scenarios_internal: the records scraped from the links of  *)
(* the page.  A link is [href, title].                                     *)
(***************************************************************************)
\* "https://arkhamcentral.com/index.php/" split at "/", without the last part
SitePrefix == <<"https:", "", "arkhamcentral.com", "index.php">>

SCENARIO_LIST_URL ==
    SitePrefix \o <<"fan-created-content-arkham-horror-lcg", "">>

\* href.startswith("https://arkhamcentral.com/index.php/")
OnSite(href) == Len(href) > Len(SitePrefix) /\ StartsWith(href, SitePrefix)

\* variant: the link filter without the test of the title
LinkAccepted_NoTitle(link) ==
    /\ OnSite(link.href)
    /\ link.href # SCENARIO_LIST_URL
    /\ Len(link.href) > 4

\* the link filter of the scraping loop
LinkAccepted(link) ==
    /\ OnSite(link.href)
    /\ link.title # <<>>
    /\ link.href # SCENARIO_LIST_URL
    /\ Len(link.href) > 4

IsPathPart(part) == part # "" /\ part # "index.php"

\* scenario_id = path_parts[-1] if path_parts else href
ScenarioId(href) ==
    LET path_parts == SelectSeq(href, IsPathPart)
    IN  IF path_parts # <<>> THEN path_parts[Len(path_parts)] ELSE href

PlayerMetadata(title) ==
    IF HasPlayerCount(title)
    THEN ("min_players" :> PlayerGroup1(title))
         @@ ("max_players" :> PlayerGroup2(title))
    ELSE <<>>

DifficultyMetadata(title) ==
    IF HasDifficulty(title)
    THEN ("difficulty" :> DifficultyOf(title))
    ELSE <<>>

ExtractMetadata(title) == PlayerMetadata(title) @@ DifficultyMetadata(title)

ScenarioRecord(link) ==
    [ id          |-> ScenarioId(link.href),
      title       |-> link.title,
      description |-> <<"Fan-created Arkham Horror scenario: ", link.title>>,
      url         |-> link.href,
      source      |-> "arkhamcentral",
      metadata    |-> ExtractMetadata(link.title) ]

\* scenarios.append({...}) for each accepted link
Appended(accepted) ==
    [i \in 1..Len(accepted) |-> ScenarioRecord(accepted[i])]

\* the scraping loop: the records of the accepted links, in page order
Scrape(links) == Appended(SelectSeq(links, LinkAccepted))

\* the pages the scenario list URL may serve
Link(href, title) == [href |-> href, title |-> title]

TitleAb      == <<"A","b">>
TitlePlayers == <<"2","-","4"," ","p","l","a","y","e","r","s">>
TitleDuo     == <<"1","-","2"," ","P","L","A","Y","E","R">>
TitleHard    == <<"H","a","r","d">>

LinkA       == Link(SitePrefix \o <<"a", "">>, TitleAb)
LinkB       == Link(SitePrefix \o <<"b">>, TitlePlayers)
LinkXA      == Link(SitePrefix \o <<"x", "a">>, TitleHard)
LinkNoTitle == Link(SitePrefix \o <<"d">>, <<>>)

Pages ==
    { <<>>,
      << Link(<<"https:", "", "example.org", "e">>, TitleAb),
         LinkNoTitle,
         Link(SCENARIO_LIST_URL, TitleAb) >>,
      <<LinkA>>,
      <<LinkA, LinkNoTitle, LinkB>>,
      <<LinkA, LinkXA>>,
      <<LinkB, Link(SitePrefix \o <<"c", "">>, TitleDuo), LinkXA>> }

\* the scraper's result for each page, computed once
Scraped == { <<page, Scrape(page)>> : page \in Pages }

\* the result of one call: a raised error or the scraped list
fetch_arkham_scenarios_internal(outcome) ==
    IF outcome.kind = "page"
    THEN [raised |-> FALSE,
          scenarios |-> Memo(Scraped, outcome.links, Scrape(outcome.links))]
    ELSE [raised |-> TRUE, scenarios |-> <<>>]

(***************************************************************************)
(* The search pipeline of search_arkham_endpoint for type "scenario".      *)
(* The records of the list returned by get_cached_scenarios are the        *)
(* objects held by the cache, so what the name filter writes into a        *)
(* record is written into the cache: SearchScenarios returns both the      *)
(* list as the handler leaves it and the results.                          *)
(***************************************************************************)
limit == 50

HasKey(r, k) == k \in DOMAIN r

\* s["similarity"] = v
SetSimilarity(s, v) == ("similarity" :> v) @@ s

\* s.get("similarity", 0)
GetSimilarity(s) == IF HasKey(s, "similarity") THEN s.similarity ELSE 0

\* similarity() of the queries and titles of this model, computed once
KnownQueries == { <<"a">>, <<"A","B">>, <<"h","a","r","d">> }

KnownTitles ==
    UNION { {title, Lower(title)} :
              title \in {TitleAb, TitlePlayers, TitleDuo, TitleHard} }

SimilarityTable ==
    { <<<<a, b>>, similarity(a, b)>> : a \in KnownQueries, b \in KnownTitles }

Similarity(a, b) == Memo(SimilarityTable, <<a, b>>, similarity(a, b))

\* sim_score = similarity(name, s.get("title", "").lower())
sim_score(p, s) == Similarity(p.name, Lower(Get(s, "title", <<>>)))

FuzzyMatches(p, s) == SimAtLeast(sim_score(p, s), p.min_similarity)

\* one turn of the loop of the fuzzy branch, as it leaves the record
Marked(p, s, score) ==
    IF SimAtLeast(score, p.min_similarity)
    THEN SetSimilarity(s, Round2(score)) ELSE s

\* the loop of the fuzzy branch, as it leaves the records of the list
FuzzyMark(p, scenarios) ==
    [i \in 1..Len(scenarios) |->
        Marked(p, scenarios[i], sim_score(p, scenarios[i]))]

SubstringMatches(p, s) ==
    Contains(Lower(Get(s, "title", <<>>)), Lower(p.name))

MinPlayersOk(p, s) ==
    /\ HasKey(s, "metadata")
    /\ HasKey(s.metadata, "min_players")
    /\ s.metadata.min_players >= p.min_players[1]

MaxPlayersOk(p, s) ==
    /\ HasKey(s, "metadata")
    /\ HasKey(s.metadata, "max_players")
    /\ s.metadata.max_players <= p.max_players[1]

DifficultyOk(p, s) ==
    /\ HasKey(s, "metadata")
    /\ HasKey(s.metadata, "difficulty")
    /\ Lower(s.metadata.difficulty) = Lower(p.difficulty)

\* scenarios.sort(key=lambda x: x.get("similarity", 0), reverse=True): the
\* sort is stable, so the records come score by score, the highest first,
\* and keep their order within one score
RECURSIVE ByScore(_, _)

FromScore(list, scores, top) ==
    SelectSeq(list, LAMBDA r : GetSimilarity(r) = top)
        \o ByScore(list, scores \ {top})

ByScore(list, scores) ==
    IF scores = {} THEN <<>>
    ELSE FromScore(list, scores,
                   CHOOSE v \in scores : \A w \in scores : w <= v)

SortBySimilarity(list) ==
    ByScore(list, { GetSimilarity(list[i]) : i \in 1..Len(list) })

\* variant: the last items are kept instead of the first
Truncate_Tail(results) ==
    IF Len(results) > limit
    THEN SubSeq(results, Len(results) - limit + 1, Len(results)) ELSE results

\* results[:limit]
Truncate(results) ==
    IF Len(results) > limit THEN SubSeq(results, 1, limit) ELSE results

NameFilter(p, marked) ==
    IF p.name # <<>>
    THEN IF p.fuzzy
         THEN SelectSeq(marked, LAMBDA s : FuzzyMatches(p, s))
         ELSE SelectSeq(marked, LAMBDA s : SubstringMatches(p, s))
    ELSE marked

\* variant: the bounds tested for truth, so that a bound of 0 is ignored
PlayerFilter_Truthy(p, list) ==
    LET given(b) == b # <<>> /\ b[1] # 0
        byMin == IF given(p.min_players)
                 THEN SelectSeq(list, LAMBDA s : MinPlayersOk(p, s))
                 ELSE list
    IN  IF given(p.max_players)
        THEN SelectSeq(byMin, LAMBDA s : MaxPlayersOk(p, s))
        ELSE byMin

PlayerFilter(p, list) ==
    LET byMin == IF p.min_players # <<>>
                 THEN SelectSeq(list, LAMBDA s : MinPlayersOk(p, s))
                 ELSE list
    IN  IF p.max_players # <<>>
        THEN SelectSeq(byMin, LAMBDA s : MaxPlayersOk(p, s))
        ELSE byMin

DifficultyFilter(p, list) ==
    IF p.difficulty # <<>>
    THEN SelectSeq(list, LAMBDA s : DifficultyOk(p, s))
    ELSE list

\* if fuzzy and name: results.sort(...)
Sorted(p, filtered) ==
    IF p.fuzzy /\ p.name # <<>> THEN SortBySimilarity(filtered) ELSE filtered

\* the filters, the sort and the truncation, on the list the loop left
Results(p, marked) ==
    [ scenarios |-> marked,
      results   |-> Truncate(Sorted(p,
                        DifficultyFilter(p,
                            PlayerFilter(p, NameFilter(p, marked))))) ]

SearchScenarios(p, scenarios) ==
    Results(p, IF p.name # <<>> /\ p.fuzzy
               THEN FuzzyMark(p, scenarios) ELSE scenarios)

(***************************************************************************)
(* Resource URIs.  A URI is kept split at "/": "arkham://scenario/x" is    *)
(* <<"arkham:", "", "scenario", "x">>.  The handler receives it parsed     *)
(* (AnyUrl): the scheme before "://", the authority after it, and the      *)
(* path from the next "/" on.                                              *)
(***************************************************************************)
\* f"arkham://scenario/{s.get('id', 'unknown')}"
ResourceUri(s) ==
    <<"arkham:", "", "scenario", IF HasKey(s, "id") THEN s.id ELSE "unknown">>

UriScheme(uri) == uri[1]

\* the segments of uri.path after its leading "/"; <<>> when there is no path
UriPath(uri) == SubSeq(uri, 4, Len(uri))

\* uri.scheme == "arkham" and uri.path and uri.path.startswith("/scenario/")
UriSupported(uri) ==
    /\ UriScheme(uri) = "arkham:"
    /\ Len(UriPath(uri)) >= 2
    /\ UriPath(uri)[1] = "scenario"

\* uri.path.split("/scenario/")[-1], as path segments: what follows the
\* last of the non-overlapping occurrences of "/scenario/" found from the
\* left.  An occurrence is a segment "scenario" that has a "/" on both
\* sides left after the occurrence before it.
RECURSIVE AfterLastScenario(_, _)
AfterLastScenario(path, from) ==
    IF \E i \in from..(Len(path) - 1) : path[i] = "scenario"
    THEN LET i == CHOOSE k \in from..(Len(path) - 1) :
                      /\ path[k] = "scenario"
                      /\ \A h \in from..(k - 1) : path[h] # "scenario"
         IN  IF \E k \in (i + 2)..(Len(path) - 1) : path[k] = "scenario"
             THEN AfterLastScenario(path, i + 2)
             ELSE SubSeq(path, i + 1, Len(path))
    ELSE SubSeq(path, from, Len(path))

UriScenarioId(uri) == AfterLastScenario(UriPath(uri), 1)

\* variant: the lookup misses the first record
Lookup_SkipFirst(scenarios, scenario_id) ==
    IF \E i \in 2..Len(scenarios) :
           HasKey(scenarios[i], "id") /\ scenarios[i].id = scenario_id
    THEN CHOOSE i \in 2..Len(scenarios) :
            HasKey(scenarios[i], "id") /\ scenarios[i].id = scenario_id
    ELSE 0

\* next((s for s in scenarios if s.get("id") == scenario_id), None),
\* as an index into scenarios, 0 for None
Lookup(scenarios, scenario_id) ==
    IF \E i \in 1..Len(scenarios) :
           HasKey(scenarios[i], "id") /\ scenarios[i].id = scenario_id
    THEN CHOOSE i \in 1..Len(scenarios) :
            /\ HasKey(scenarios[i], "id") /\ scenarios[i].id = scenario_id
            /\ \A h \in 1..(i - 1) :
                  ~(HasKey(scenarios[h], "id") /\ scenarios[h].id = scenario_id)
    ELSE 0

\* scenario_data and "url" in scenario_data
Found(scenarios, i) == i # 0 /\ HasKey(scenarios[i], "url")

(***************************************************************************)
(* fetch_scenario_detail: the text returned for each outcome of the page   *)
(* fetch.  No outcome raises.                                              *)
(***************************************************************************)
DetailOutcomes == {"extracted", "no_entry_content", "timeout",
                   "request_error", "error"}

\* variant: a failed fetch gives no text
fetch_scenario_detail_Blank(scenario_url, outcome) ==
    CASE outcome = "extracted" ->
            [kind |-> "metadata_and_entry_content", url |-> scenario_url]
      [] outcome = "no_entry_content" ->
            [kind |-> "page_body", url |-> scenario_url]
      [] OTHER ->
            [kind |-> "none", url |-> <<>>]

fetch_scenario_detail(scenario_url, outcome) ==
    CASE outcome = "extracted" ->
            [kind |-> "metadata_and_entry_content", url |-> scenario_url]
      [] outcome = "no_entry_content" ->
            [kind |-> "page_body", url |-> scenario_url]
      [] outcome = "timeout" ->
            [kind |-> "error_page_timeout", url |-> scenario_url]
      [] outcome = "request_error" ->
            [kind |-> "error_page_request", url |-> scenario_url]
      [] OTHER ->
            [kind |-> "error_page_unexpected", url |-> <<>>]

(***************************************************************************)
(* Inputs: what the scenario Fetcher may do, and the requests.              *)
(***************************************************************************)
\* what one call of the scenario Fetcher may do
Raises ==
    { [kind |-> k, links |-> <<>>] : k \in {"timeout", "request_error", "error"} }

FetchOutcomes == Raises \cup { [kind |-> "page", links |-> page] : page \in Pages }

\* the outcomes that differ for the cache: a raise, an empty page, a page
\* with one scenario, a page with scenarios and a link that is none
CacheOutcomes ==
    Raises \cup { [kind |-> "page", links |-> page] :
                    page \in { <<>>, <<LinkA>>, <<LinkA, LinkNoTitle, LinkB>> } }

NoParams ==
    [ type |-> <<>>, name |-> <<>>, min_players |-> <<>>, max_players |-> <<>>,
      difficulty |-> <<>>, fuzzy |-> FALSE, min_similarity |-> 60 ]

\* an absent Optional[int] is <<>>, a given one is <<n>>
Params(type, name, lo, hi, difficulty, fuzzy, minSim) ==
    [ type |-> type, name |-> name, min_players |-> lo, max_players |-> hi,
      difficulty |-> difficulty, fuzzy |-> fuzzy, min_similarity |-> minSim ]

Request(op, id, uri, p) == [op |-> op, id |-> id, uri |-> uri, p |-> p]

NoRequest == Request("none", "", <<>>, NoParams)

ScenarioIds == {"a", "b", "nope"}

ResourceUris ==
    { <<"arkham:", "", "scenario", "a">>,
      <<"arkham:", "", "scenario", "nope">>,
      <<"arkham:", "", "host", "scenario", "a">>,
      <<"arkham:", "", "host", "scenario", "nope">>,
      <<"arkham:", "", "host", "scenario", "">>,
      <<"arkham:", "", "scenario">>,
      <<"https:", "", "host", "scenario", "a">> }

KindScenario == <<"s","c","e","n","a","r","i","o">>
KindWidget == <<"w","i","d","g","e","t">>

QueryA    == <<"a">>
QueryAB   == <<"A","B">>
QueryHard == <<"h","a","r","d">>

PlainSearch == Params(KindScenario, <<>>, <<>>, <<>>, <<>>, FALSE, 60)
FuzzySearch == Params(KindScenario, QueryA, <<>>, <<>>, <<>>, TRUE, 0)

\* searches by name: substring, and fuzzy at thresholds 0, 0.6 and 1.0
NameSearches ==
    { Params(kind, name, <<>>, <<>>, <<>>, FALSE, 60) :
        kind \in {KindScenario, <<"S","c","e","n","a","r","i","o">>},
        name \in {QueryA, QueryAB, QueryHard} }
    \cup { Params(KindScenario, name, <<>>, <<>>, <<>>, TRUE, minSim) :
             name \in {QueryA, QueryAB}, minSim \in {0, 60, 100} }

\* searches by player count: each bound absent or given, 0 included
PlayerSearches ==
    { Params(KindScenario, <<>>, lo, hi, <<>>, FALSE, 60) :
        lo \in {<<>>, <<0>>, <<2>>, <<3>>}, hi \in {<<>>, <<0>>, <<2>>, <<4>>} }

OtherSearches ==
    { Params(KindScenario, <<>>, <<>>, <<>>, <<"H","A","R","D">>, FALSE, 60),
      Params(KindScenario, QueryA, <<1>>, <<4>>, <<>>, TRUE, 0),
      Params(KindWidget, <<>>, <<>>, <<>>, <<>>, FALSE, 60),
      Params(KindScenario, <<>>, <<>>, <<>>, <<>>, TRUE, 100) }

SearchParams == NameSearches \cup PlayerSearches \cup OtherSearches

\* search_type = type.lower()
SearchType(p) == Lower(p.type)

ListRequest == Request("list_scenarios", "", <<>>, NoParams)

\* the requests that exercise the cache protocol
Requests ==
    { ListRequest,
      Request("list_resources", "", <<>>, NoParams),
      Request("get_scenario_detail", "a", <<>>, NoParams),
      Request("search", "", <<>>, PlainSearch) }

\* the requests that read one scenario, by id or by URI
ReadRequests ==
    { ListRequest,
      Request("list_resources", "", <<>>, NoParams),
      Request("search", "", <<>>, FuzzySearch) }
    \cup { Request("get_scenario_detail", id, <<>>, NoParams) : id \in ScenarioIds }
    \cup { Request("read_resource", "", uri, NoParams) : uri \in ResourceUris }

\* the search requests
SearchRequests ==
    { ListRequest } \cup { Request("search", "", <<>>, p) : p \in SearchParams }

\* whether the handler of r reaches  await get_cached_scenarios()
ReadsCache(r) ==
    CASE r.op = "read_resource" ->
            UriSupported(r.uri) /\ UriScenarioId(r.uri) # <<"">>
      [] r.op = "search" -> SearchType(r.p) = KindScenario
      [] OTHER -> TRUE

(***************************************************************************)
(* The card branch of search_arkham_endpoint (types "card" and             *)
(* "investigator") and fetch_arkhamdb_cards.  The cards are fetched for    *)
(* every request; nothing is cached.                                       *)
(***************************************************************************)
KindCard == <<"c","a","r","d">>
KindInvestigator == <<"i","n","v","e","s","t","i","g","a","t","o","r">>

\* search_type in ["card", "investigator"]
SearchesCards(r) ==
    r.op = "search" /\ SearchType(r.p) \in {KindCard, KindInvestigator}

\* the record fetch_arkhamdb_cards appends for one card of the API's answer
CardRecord(card) ==
    [ id      |-> Get(card, "code", "unknown"),
      name    |-> Get(card, "name",
                      <<"U","n","k","n","o","w","n"," ","C","a","r","d">>),
      type    |-> Get(card, "type_name", "Unknown"),
      subtype |-> Get(card, "subtype_name", ""),
      faction |-> Get(card, "faction_name", <<"N","e","u","t","r","a","l">>),
      pack    |-> Get(card, "pack_name", "Unknown"),
      text    |-> Get(card, "text", ""),
      cost    |-> Get(card, "cost", "None"),
      source  |-> "arkhamdb" ]

\* fetch_arkhamdb_cards: the cards of the answer, [] when anything raised
fetch_arkhamdb_cards(outcome) ==
    IF outcome.kind = "data"
    THEN [i \in 1..Len(outcome.data) |-> CardRecord(outcome.data[i])]
    ELSE <<>>

\* sim_score = similarity(name, card.get("name", ""))
card_sim_score(p, card) == Similarity(p.name, Get(card, "name", <<>>))

\* the loop of the fuzzy branch over the cards
CardFuzzyMark(p, cards) ==
    [i \in 1..Len(cards) |->
        Marked(p, cards[i], card_sim_score(p, cards[i]))]

CardNameFilter(p, marked) ==
    IF p.name # <<>>
    THEN IF p.fuzzy
         THEN SelectSeq(marked,
                  LAMBDA c : SimAtLeast(card_sim_score(p, c), p.min_similarity))
         ELSE SelectSeq(marked,
                  LAMBDA c : Contains(Lower(Get(c, "name", <<>>)), Lower(p.name)))
    ELSE marked

FactionFilter(p, list) ==
    IF Get(p, "faction", <<>>) # <<>>
    THEN SelectSeq(list,
             LAMBDA c : Contains(Lower(Get(c, "faction", <<>>)), Lower(p.faction)))
    ELSE list

\* the record returned when the Fetcher gave no cards
NoCardData(p) ==
    [ error      |-> <<"No ", SearchType(p), " data available from ArkhamDB.">>,
      type       |-> SearchType(p),
      name_query |-> p.name ]

\* variant: without the test for an empty answer
SearchCards_EmptyList(p, cards) ==
    Truncate(Sorted(p,
        FactionFilter(p,
            CardNameFilter(p, IF p.name # <<>> /\ p.fuzzy
                              THEN CardFuzzyMark(p, cards) ELSE cards))))

\* the card branch once fetch_arkhamdb_cards has returned
SearchCards(p, cards) ==
    IF cards = <<>>
    THEN <<NoCardData(p)>>
    ELSE Truncate(Sorted(p,
             FactionFilter(p,
                 CardNameFilter(p, IF p.name # <<>> /\ p.fuzzy
                                   THEN CardFuzzyMark(p, cards) ELSE cards))))

\* pages and card lists around the limit of the search results: the links
\* carry two titles in turn, every third card has no name
LongPage(n) ==
    [i \in 1..n |-> Link(SitePrefix \o <<ToString(i)>>,
                         IF i % 2 = 1 THEN TitleHard ELSE TitleAb)]

Lengths == {limit, limit + 1, ManyMatches}

LongOutcomes ==
    Raises \cup { [kind |-> "page", links |-> LongPage(n)] : n \in Lengths }

CardData(n) ==
    [i \in 1..n |->
        IF i % 3 = 0
        THEN [code |-> ToString(i)]
        ELSE [code |-> ToString(i),
              name |-> IF i % 2 = 1 THEN TitleHard ELSE TitleAb,
              faction_name |-> <<"S","e","e","k","e","r">>]]

\* what one call of the card Fetcher may meet
CardOutcomes ==
    { [kind |-> k, data |-> <<>>] : k \in {"timeout", "http_error", "error"} }
    \cup { [kind |-> "data", data |-> CardData(n)] : n \in Lengths \cup {0} }

KindWidgetCaps == <<"W","i","d","g","e","t">>

\* searches of every kind: scenarios, cards, investigators and unknown kinds
KindRequests ==
    { Request("search", "", <<>>, p) : p \in
    { PlainSearch, FuzzySearch,
      Params(KindWidget, <<>>, <<>>, <<>>, <<>>, FALSE, 60),
      Params(KindWidgetCaps, QueryA, <<>>, <<>>, <<>>, TRUE, 60),
      Params(KindCard, <<>>, <<>>, <<>>, <<>>, FALSE, 60),
      Params(KindInvestigator, <<>>, <<>>, <<>>, <<>>, FALSE, 60),
      Params(KindCard, QueryA, <<>>, <<>>, <<>>, FALSE, 60),
      Params(KindCard, QueryA, <<>>, <<>>, <<>>, TRUE, 0),
      ("faction" :> <<"s","e","e","k">>)
          @@ Params(<<"C","a","r","d">>, <<>>, <<>>, <<>>, <<>>, FALSE, 60) } }

(***************************************************************************)
(* State.                                                                  *)
(*   cached_scenarios  the module-level list                               *)
(*   locked, waiters   cache_lock: asyncio.Lock, granted first come first  *)
(*                     served                                              *)
(*   pc, req           where each task is and the request it is serving    *)
(*   detail_url        the argument of a pending fetch_scenario_detail     *)
(*   last              the response completed most recently                *)
(*   fetchLog          for each finished call of the scenario Fetcher,     *)
(*                     whether its batch was stored                        *)
(*   firstList         the first non-empty answer of GET /scenarios        *)
(*   overlap           for a task that called while a fetch was in flight, *)
(*                     the number of that fetch; 0 otherwise               *)
(***************************************************************************)
VARIABLES cached_scenarios, locked, waiters, pc, req, detail_url, last,
          fetchLog, firstList, overlap

vars == <<cached_scenarios, locked, waiters, pc, req, detail_url, last,
          fetchLog, firstList, overlap>>

NoContent == [kind |-> "none", url |-> <<>>]

\* a response: the request, what the caller receives, and about the call of
\* get_cached_scenarios behind it: whether it ran the Fetcher (fetched), how
\* that ended (fetchKind) and whether the request had arrived during
\* another call's fetch (overlapped).  seq alternates with every response.
ResponseOf(r, status, records, resources, content, fetched, fetchKind, over, seq) ==
    [ op |-> r.op, id |-> r.id, uri |-> r.uri, p |-> r.p,
      status |-> status, records |-> records, resources |-> resources,
      content |-> content, fetched |-> fetched, fetchKind |-> fetchKind,
      overlapped |-> over, seq |-> seq ]

Response(r, status, records, resources, content, fetched, fetchKind, over) ==
    ResponseOf(r, status, records, resources, content, fetched, fetchKind,
               over, 1 - last.seq)

Fetching == { t \in Tasks : pc[t] = "fetching" }

\* calls of the scenario Fetcher made so far
FetchCount == Len(fetchLog) + Cardinality(Fetching)

NotStored == Cardinality({ i \in 1..Len(fetchLog) : ~fetchLog[i] })

Init ==
    /\ cached_scenarios = <<>>
    /\ locked = FALSE
    /\ waiters = <<>>
    /\ pc = [t \in Tasks |-> "idle"]
    /\ req = [t \in Tasks |-> NoRequest]
    /\ detail_url = [t \in Tasks |-> <<>>]
    /\ last = ResponseOf(NoRequest, "none", <<>>, <<>>, NoContent, FALSE,
                         "none", FALSE, 0)
    /\ fetchLog = <<>>
    /\ firstList = <<>>
    /\ overlap = [t \in Tasks |-> 0]

(***************************************************************************)
(* What a handler does with the list get_cached_scenarios returned, up to  *)
(* its next suspension: the list as the handler leaves it, and either the  *)
(* response or the detail fetch it starts.                                 *)
(***************************************************************************)
Outcome(scenarios, status, records, resources, next, url) ==
    [ scenarios |-> scenarios, status |-> status, records |-> records,
      resources |-> resources, next |-> next, url |-> url ]

\* get_scenarios_endpoint
ListScenarios(scenarios) ==
    Outcome(scenarios, "200", scenarios, <<>>, "idle", <<>>)

\* handle_list_resources
ListResources(scenarios) ==
    Outcome(scenarios, "returned", <<>>,
            [i \in 1..Len(scenarios) |->
                [ uri         |-> ResourceUri(scenarios[i]),
                  name        |-> Get(scenarios[i], "title", "Unknown Title"),
                  description |-> Get(scenarios[i], "description",
                                      "No description available.") ]],
            "idle", <<>>)

\* what follows the lookup: the detail fetch for the record found at i,
\* or the answer given when there is none
Serve(scenarios, i, missing) ==
    IF Found(scenarios, i)
    THEN Outcome(scenarios, "pending", <<>>, <<>>, "detail", scenarios[i].url)
    ELSE Outcome(scenarios, missing, <<>>, <<>>, "idle", <<>>)

\* variant: an unknown id is answered with an empty success
ScenarioDetail_Swallow(scenario_id, scenarios) ==
    Serve(scenarios, Lookup(scenarios, scenario_id), "200")

\* get_scenario_detail_endpoint, up to  await fetch_scenario_detail
ScenarioDetail(scenario_id, scenarios) ==
    Serve(scenarios, Lookup(scenarios, scenario_id), "404")

\* the lookup by the id taken from a URI path: a single segment is an id
LookupPath(scenarios, scenario_id) ==
    IF Len(scenario_id) = 1 THEN Lookup(scenarios, scenario_id[1]) ELSE 0

\* handle_read_resource after get_cached_scenarios
ReadResource(uri, scenarios) ==
    Serve(scenarios, LookupPath(scenarios, UriScenarioId(uri)), "ValueError")

\* the response of the scenario branch
SearchOutcome(found) ==
    Outcome(found.scenarios, "200", found.results, <<>>, "idle", <<>>)

\* search_arkham_endpoint, scenario branch
Search(p, scenarios) == SearchOutcome(SearchScenarios(p, scenarios))

Handle(r, scenarios) ==
    CASE r.op = "list_scenarios" -> ListScenarios(scenarios)
      [] r.op = "list_resources" -> ListResources(scenarios)
      [] r.op = "get_scenario_detail" -> ScenarioDetail(r.id, scenarios)
      [] r.op = "read_resource" -> ReadResource(r.uri, scenarios)
      [] r.op = "search" -> Search(r.p, scenarios)

\* the handlers' paths that end before get_cached_scenarios is reached
HandleWithoutCache(r) ==
    CASE r.op = "read_resource" -> "ValueError"
      [] r.op = "search" /\ SearchType(r.p) \notin {<<"c","a","r","d">>,
              <<"i","n","v","e","s","t","i","g","a","t","o","r">>} -> "200"

\* variant: the message names the normalised type
UnknownTypeRecord_Normalised(p) ==
    [ error |-> <<"Unknown search type: '", SearchType(p),
                  "'. Supported types: 'scenario', 'card', 'investigator'.">> ]

UnknownTypeRecord(p) ==
    [ error |-> <<"Unknown search type: '", p.type,
                  "'. Supported types: 'scenario', 'card', 'investigator'.">> ]

(***************************************************************************)
(* get_cached_scenarios.                                                   *)
(***************************************************************************)
\* variant: no mutual exclusion
LockFree_Always == TRUE

\* asyncio.Lock.acquire() returns without suspending
LockFree == ~locked /\ waiters = <<>>

\* variant: the Fetcher is tried once only
CacheEmpty_OnlyOnce(cache) == cache = <<>> /\ fetchLog = <<>>

\* variant: the cache is tested before the wait for the lock, not after
CacheEmpty_BeforeWait(cache) == cache = <<>> \/ waiters # <<>>

\* if not cached_scenarios
CacheEmpty(cache) == cache = <<>>

\* fetched and all('id' in s and 'title' in s and 'url' in s for s in fetched)
Validate(fetched) ==
    /\ fetched # <<>>
    /\ \A i \in 1..Len(fetched) :
          /\ HasKey(fetched[i], "id")
          /\ HasKey(fetched[i], "title")
          /\ HasKey(fetched[i], "url")

\* except ...: logger.error(...); return []
Caught(cache, kind) ==
    [cache |-> cache, returned |-> <<>>, stored |-> FALSE, error |-> FALSE,
     kind |-> kind]

\* lines 48-53: the batch is stored whole or not at all
Store(cache, fetched) ==
    IF Validate(fetched)
    THEN [cache |-> cache \o fetched, returned |-> cache \o fetched,
          stored |-> TRUE, error |-> FALSE, kind |-> "stored"]
    ELSE [cache |-> cache, returned |-> <<>>, stored |-> FALSE,
          error |-> FALSE, kind |-> "invalid"]

\* the try block once the Fetcher has returned or raised
AfterFetch(cache, kind, got) ==
    IF got.raised THEN Caught(cache, kind) ELSE Store(cache, got.scenarios)

\* variant: an error raised by the Fetcher is not caught
Refill_Propagates(cache, outcome) ==
    IF outcome.kind # "page"
    THEN [cache |-> cache, returned |-> <<>>, stored |-> FALSE,
          error |-> TRUE, kind |-> outcome.kind]
    ELSE Store(cache, Scrape(outcome.links))

\* the body of  if not cached_scenarios:  once the Fetcher has finished:
\* the cache afterwards, the list returned, and whether an error leaves
\* get_cached_scenarios
Refill(cache, outcome) ==
    AfterFetch(cache, outcome.kind, fetch_arkham_scenarios_internal(outcome))

(***************************************************************************)
(* Actions.                                                                *)
(***************************************************************************)
\* task t, serving r, has the list get_cached_scenarios returned and runs
\* its handler up to the response or to the detail fetch
Finish(t, r, scenarios, cache, fetched, fetchKind, over) ==
    \E h \in {Handle(r, scenarios)} :
        /\ cached_scenarios' = IF scenarios # <<>> THEN h.scenarios ELSE cache
        /\ pc' = [pc EXCEPT ![t] = h.next]
        /\ detail_url' = [detail_url EXCEPT ![t] = h.url]
        /\ req' = [req EXCEPT ![t] = IF h.next = "idle" THEN NoRequest ELSE r]
        /\ last' = IF h.next = "idle"
                   THEN Response(r, h.status, h.records, h.resources,
                                 NoContent, fetched, fetchKind, over > 0)
                   ELSE last
        /\ firstList' = IF r.op = "list_scenarios" /\ firstList = <<>>
                        THEN h.records ELSE firstList
        /\ overlap' = [overlap EXCEPT ![t] = 0]

\* an error left get_cached_scenarios: GET /scenarios answers 500, the
\* other handlers let it through
Fail(t, r, cache, fetchKind, over) ==
    /\ cached_scenarios' = cache
    /\ pc' = [pc EXCEPT ![t] = "idle"]
    /\ detail_url' = [detail_url EXCEPT ![t] = <<>>]
    /\ req' = [req EXCEPT ![t] = NoRequest]
    /\ last' = Response(r, IF r.op = "list_scenarios" THEN "500" ELSE "raised",
                        <<>>, <<>>, NoContent, TRUE, fetchKind, over > 0)
    /\ firstList' = firstList
    /\ overlap' = [overlap EXCEPT ![t] = 0]

\* t holds cache_lock: lines 43-60 up to the first suspension
Enter(t, r, over) ==
    IF CacheEmpty(cached_scenarios)
    THEN /\ locked' = TRUE
         /\ pc' = [pc EXCEPT ![t] = "fetching"]
         /\ req' = [req EXCEPT ![t] = r]
         /\ overlap' = [overlap EXCEPT ![t] = over]
         /\ UNCHANGED <<cached_scenarios, detail_url, last, fetchLog, firstList>>
    ELSE /\ Finish(t, r, cached_scenarios, cached_scenarios, FALSE, "none", over)
         /\ UNCHANGED <<locked, fetchLog>>

\* a request arrives and its handler runs up to its first suspension
Call(t, r) ==
    /\ pc[t] = "idle"
    /\ ReadsCache(r)
    /\ LET over == IF Fetching # {} THEN FetchCount ELSE 0
       IN  IF LockFree
           THEN Enter(t, r, over) /\ UNCHANGED waiters
           ELSE /\ waiters' = Append(waiters, t)
                /\ pc' = [pc EXCEPT ![t] = "waiting"]
                /\ req' = [req EXCEPT ![t] = r]
                /\ overlap' = [overlap EXCEPT ![t] = over]
                /\ UNCHANGED <<cached_scenarios, locked, detail_url, last,
                               fetchLog, firstList>>

\* a request whose handler answers without reading the cache
Reject(t, r) ==
    /\ pc[t] = "idle"
    /\ ~ReadsCache(r)
    /\ ~SearchesCards(r)
    /\ last' = Response(r, HandleWithoutCache(r),
                        IF r.op = "search"
                        THEN Truncate(<<UnknownTypeRecord(r.p)>>) ELSE <<>>,
                        <<>>, NoContent, FALSE, "none", FALSE)
    /\ UNCHANGED <<cached_scenarios, locked, waiters, pc, req, detail_url,
                   fetchLog, firstList, overlap>>

\* the first waiter is granted the released lock
Resume(t) ==
    /\ pc[t] = "waiting"
    /\ ~locked
    /\ waiters # <<>>
    /\ Head(waiters) = t
    /\ waiters' = Tail(waiters)
    /\ Enter(t, req[t], overlap[t])

\* variant: the lock is released only after a batch was stored
FetchReturn_KeepsLock(t, outcome) ==
    /\ pc[t] = "fetching"
    /\ \E g \in {Refill(cached_scenarios, outcome)} :
           /\ ~g.stored => NotStored < MaxFailures
           /\ fetchLog' = Append(fetchLog, g.stored)
           /\ locked' = ~g.stored
           /\ UNCHANGED waiters
           /\ IF g.error
              THEN Fail(t, req[t], g.cache, g.kind, overlap[t])
              ELSE Finish(t, req[t], g.returned, g.cache, TRUE, g.kind,
                          overlap[t])

\* the scenario Fetcher finishes; validation, store, release of the lock,
\* and the caller's handler up to its next suspension
FetchReturn(t, outcome) ==
    /\ pc[t] = "fetching"
    /\ \E g \in {Refill(cached_scenarios, outcome)} :
           /\ ~g.stored => NotStored < MaxFailures
           /\ fetchLog' = Append(fetchLog, g.stored)
           /\ locked' = FALSE
           /\ UNCHANGED waiters
           /\ IF g.error
              THEN Fail(t, req[t], g.cache, g.kind, overlap[t])
              ELSE Finish(t, req[t], g.returned, g.cache, TRUE, g.kind,
                          overlap[t])

\* fetch_scenario_detail finishes and the handler answers
DetailReturn(t, outcome) ==
    /\ pc[t] = "detail"
    /\ pc' = [pc EXCEPT ![t] = "idle"]
    /\ req' = [req EXCEPT ![t] = NoRequest]
    /\ detail_url' = [detail_url EXCEPT ![t] = <<>>]
    /\ last' = Response(req[t],
                        IF req[t].op = "get_scenario_detail" THEN "200"
                        ELSE "returned",
                        <<>>, <<>>,
                        fetch_scenario_detail(detail_url[t], outcome),
                        FALSE, "none", FALSE)
    /\ UNCHANGED <<cached_scenarios, locked, waiters, fetchLog, firstList,
                   overlap>>

\* a card search arrives: the handler runs up to  await fetch_arkhamdb_cards
CallCards(t, r) ==
    /\ pc[t] = "idle"
    /\ SearchesCards(r)
    /\ pc' = [pc EXCEPT ![t] = "cards"]
    /\ req' = [req EXCEPT ![t] = r]
    /\ UNCHANGED <<cached_scenarios, locked, waiters, detail_url, last,
                   fetchLog, firstList, overlap>>

\* fetch_arkhamdb_cards finishes and the card branch answers; cards notes
\* in the response what the Fetcher returned
CardsReturn(t, outcome) ==
    /\ pc[t] = "cards"
    /\ pc' = [pc EXCEPT ![t] = "idle"]
    /\ req' = [req EXCEPT ![t] = NoRequest]
    /\ \E cards \in {fetch_arkhamdb_cards(outcome)} :
           last' = ("cards" :> cards)
                      @@ Response(req[t], "200", SearchCards(req[t].p, cards),
                                  <<>>, NoContent, FALSE, "none", FALSE)
    /\ UNCHANGED <<cached_scenarios, locked, waiters, detail_url, fetchLog,
                   firstList, overlap>>

\* any number of tasks serving the requests of the cache protocol
Next ==
    \/ \E t \in Tasks, r \in Requests : Call(t, r)
    \/ \E t \in Tasks : Resume(t)
    \/ \E t \in Tasks, outcome \in CacheOutcomes : FetchReturn(t, outcome)
    \/ \E t \in Tasks, outcome \in DetailOutcomes : DetailReturn(t, outcome)

Spec == Init /\ [][Next]_vars

\* one client reading scenarios by id and by URI, one request after another
Reader == CHOOSE t \in Tasks : \A u \in Tasks : t <= u

NextRead ==
    \/ \E r \in ReadRequests : Call(Reader, r)
    \/ \E r \in ReadRequests : Reject(Reader, r)
    \/ \E outcome \in FetchOutcomes : FetchReturn(Reader, outcome)
    \/ \E outcome \in DetailOutcomes : DetailReturn(Reader, outcome)

SpecRead == Init /\ [][NextRead]_vars

\* one client searching, one request after another
NextSearch ==
    \/ \E r \in SearchRequests : Call(Reader, r)
    \/ \E r \in SearchRequests : Reject(Reader, r)
    \/ \E outcome \in FetchOutcomes : FetchReturn(Reader, outcome)

SpecSearch == Init /\ [][NextSearch]_vars

\* one client searching every kind of object over long lists
NextKinds ==
    \/ \E r \in KindRequests : Call(Reader, r)
    \/ \E r \in KindRequests : Reject(Reader, r)
    \/ \E outcome \in LongOutcomes : FetchReturn(Reader, outcome)
    \/ \E r \in KindRequests : CallCards(Reader, r)
    \/ \E outcome \in CardOutcomes : CardsReturn(Reader, outcome)

SpecKinds == Init /\ [][NextKinds]_vars

\* any number of tasks calling get_cached_scenarios; the event loop runs a
\* task that was granted the lock, and every call of the Fetcher ends (the
\* client's timeout is 30 s)
LiveOutcomes ==
    { [kind |-> "timeout", links |-> <<>>],
      [kind |-> "page", links |-> <<>>],
      [kind |-> "page", links |-> <<LinkA>>] }

NextLive ==
    \/ \E t \in Tasks :
          \E r \in {ListRequest, Request("search", "", <<>>, PlainSearch)} :
              Call(t, r)
    \/ \E t \in Tasks : Resume(t)
    \/ \E t \in Tasks, outcome \in LiveOutcomes : FetchReturn(t, outcome)

SpecLive ==
    /\ Init
    /\ [][NextLive]_vars
    /\ \A t \in Tasks :
          /\ WF_vars(Resume(t))
          /\ WF_vars(\E outcome \in LiveOutcomes : FetchReturn(t, outcome))

(***************************************************************************)
(* Properties.                                                             *)
(***************************************************************************)
RaiseKinds == {"timeout", "request_error", "error"}

\* a response is produced in this step
Responds == last'.seq # last.seq

HasId(scenarios, id) ==
    \E i \in 1..Len(scenarios) : HasKey(scenarios[i], "id") /\ scenarios[i].id = id

\* the first record of scenarios carrying id
FirstWithId(scenarios, id) ==
    scenarios[CHOOSE i \in 1..Len(scenarios) :
                 /\ scenarios[i].id = id
                 /\ \A h \in 1..(i - 1) : scenarios[h].id # id]

\* C1: once GET /scenarios has returned a non-empty sequence, the Fetcher is
\* not invoked again and every later GET /scenarios returns exactly that
\* sequence, whatever was served in between.
C1_CacheStability ==
    firstList # <<>> =>
        /\ Fetching = {}
        /\ last.op = "list_scenarios" => last.records = firstList

\* C2: no response carries an error out of get_cached_scenarios, and a call
\* whose fetch stored nothing (timeout, request error, other error, invalid
\* batch) gets the empty sequence.
C2_NeverFails ==
    /\ last.status \notin {"500", "raised"}
    /\ (last.op = "list_scenarios" /\ last.fetched /\ last.fetchKind # "stored")
          => last.status = "200" /\ last.records = <<>>

\* a GET /scenarios whose fetch timed out was answered with the empty list
C2_Witness ==
    /\ last.op = "list_scenarios"
    /\ last.fetched
    /\ last.fetchKind = "timeout"
    /\ last.status = "200"
    /\ last.records = <<>>

\* C3: a GET /scenarios during which the Fetcher raises answers the empty
\* sequence and leaves the cache empty; while the cache is empty every call
\* that gets the lock invokes the Fetcher; and a GET /scenarios whose fetch
\* succeeds returns the batch it has just cached.
C3_FailedFetchRetries ==
    [][\A t \in Tasks :
          /\ ( /\ pc[t] = "fetching" /\ pc'[t] # "fetching"
               /\ req[t].op = "list_scenarios"
               /\ last'.fetchKind \in RaiseKinds )
                => /\ last'.status = "200"
                   /\ last'.records = <<>>
                   /\ cached_scenarios' = <<>>
          /\ ( /\ cached_scenarios = <<>>
               /\ pc[t] \in {"idle", "waiting"}
               /\ pc'[t] \notin {"idle", "waiting"} )
                => /\ pc'[t] = "fetching"
                   /\ FetchCount' = FetchCount + 1
          /\ ( /\ cached_scenarios = <<>>
               /\ Responds
               /\ last'.op = "list_scenarios" )
                => last'.fetched
          /\ ( /\ pc[t] = "fetching" /\ pc'[t] # "fetching"
               /\ req[t].op = "list_scenarios"
               /\ last'.fetchKind = "stored" )
                => /\ cached_scenarios' # <<>>
                   /\ last'.records = cached_scenarios'
      ]_vars

\* a GET /scenarios has failed on a raised error and a later GET /scenarios
\* is running the Fetcher again
C3_Witness ==
    /\ last.op = "list_scenarios"
    /\ last.fetched
    /\ last.fetchKind \in RaiseKinds
    /\ \E t \in Tasks : pc[t] = "fetching" /\ req[t].op = "list_scenarios"

\* C4: at most one task is between the call of the Fetcher and the end of
\* the validation, and cache_lock is held all that time.
C4_OneRefill ==
    /\ Cardinality(Fetching) <= 1
    /\ Fetching # {} => locked

\* one task is fetching while another waits for the lock
C4_Witness ==
    \E t, u \in Tasks : pc[t] = "fetching" /\ pc[u] = "waiting"

WellFormed(batch) ==
    \A i \in 1..Len(batch) :
        /\ HasKey(batch[i], "id") /\ batch[i].id # ""
        /\ HasKey(batch[i], "title") /\ batch[i].title # <<>>
        /\ HasKey(batch[i], "url") /\ batch[i].url # <<>>

\* C6: when a fetch ends, either its batch is stored and every cached record
\* carries a non-empty id, title and url, or nothing is stored, the cache
\* stays empty and the caller gets the empty sequence.
C6_AllOrNothing ==
    [][\A t \in Tasks :
          (pc[t] = "fetching" /\ pc'[t] # "fetching")
             => IF fetchLog'[Len(fetchLog')]
                THEN /\ cached_scenarios' # <<>>
                     /\ WellFormed(cached_scenarios')
                ELSE /\ cached_scenarios' = <<>>
                     /\ (req[t].op \in {"list_scenarios", "search"})
                           => last'.records = <<>>
      ]_vars

\* a fetch stored the two well-formed records of a page that also carried a
\* link without a title
C6_Witness ==
    /\ last.fetched
    /\ last.fetchKind = "stored"
    /\ cached_scenarios = Scrape(<<LinkA, LinkNoTitle, LinkB>>)
    /\ Len(cached_scenarios) = 2

\* C7: a detail request for the id of a record that GET /scenarios has
\* returned is never answered 404; the lookup resolves to a cached record
\* with that id and the detail Fetcher is given that record's url.
C7_ListedIdResolves ==
    \A i \in 1..Len(firstList) :
        /\ (last.op = "get_scenario_detail" /\ last.id = firstList[i].id)
              => /\ last.status = "200"
                 /\ last.content.kind # "none"
        /\ \A t \in Tasks :
              ( /\ pc[t] = "detail"
                /\ req[t].op = "get_scenario_detail"
                /\ req[t].id = firstList[i].id )
                 => /\ HasId(cached_scenarios, req[t].id)
                    /\ detail_url[t] = FirstWithId(cached_scenarios, req[t].id).url

\* the detail of a listed scenario was fetched from its page and answered 200
C7_Witness ==
    /\ last.op = "get_scenario_detail"
    /\ last.status = "200"
    /\ last.content.kind = "metadata_and_entry_content"
    /\ \E i \in 1..Len(firstList) :
          /\ firstList[i].id = last.id
          /\ firstList[i].url = last.content.url

\* C8: read_resource accepts the URI that list_resources publishes for a
\* cached scenario: it does not fail with ValueError.
C8_PublishedUriIsReadable ==
    ( /\ last.op = "read_resource"
      /\ \E i \in 1..Len(cached_scenarios) :
            ResourceUri(cached_scenarios[i]) = last.uri )
       => last.status # "ValueError"

\* what the caller of a detail request gets for each outcome of the page fetch
DetailContents(url) ==
    { fetch_scenario_detail(url, outcome) : outcome \in DetailOutcomes }

\* C9: a detail request whose id matches no cached record is answered 404
\* (ValueError by read_resource) without content, and the detail Fetcher is
\* invoked only for an id that is in the cache, on the url of the first
\* record with that id; GET /scenarios/{id} with such an id answers 200 with
\* what the detail Fetcher returned.
C9_NotFoundOrDetail ==
    [][/\ (Responds /\ last'.op = "get_scenario_detail")
            => IF HasId(cached_scenarios', last'.id)
               THEN /\ last'.status = "200"
                    /\ last'.content \in
                          DetailContents(FirstWithId(cached_scenarios', last'.id).url)
               ELSE /\ last'.status = "404"
                    /\ last'.content = NoContent
       /\ ( /\ Responds
            /\ last'.op = "read_resource"
            /\ \/ Len(UriScenarioId(last'.uri)) # 1
               \/ ~HasId(cached_scenarios', UriScenarioId(last'.uri)[1]) )
            => /\ last'.status = "ValueError"
               /\ last'.content = NoContent
       /\ \A t \in Tasks :
             (pc'[t] = "detail" /\ req'[t].op = "get_scenario_detail")
                => /\ HasId(cached_scenarios', req'[t].id)
                   /\ detail_url'[t] =
                         FirstWithId(cached_scenarios', req'[t].id).url
       /\ \A t \in Tasks :
             (pc'[t] = "detail" /\ req'[t].op = "read_resource")
                => /\ Len(UriScenarioId(req'[t].uri)) = 1
                   /\ HasId(cached_scenarios', UriScenarioId(req'[t].uri)[1])
      ]_vars

\* with scenarios in the cache, a detail request for an id that is not among
\* them was answered 404
C9_Witness ==
    /\ last.op = "get_scenario_detail"
    /\ last.status = "404"
    /\ cached_scenarios # <<>>
    /\ ~HasId(cached_scenarios, last.id)

\* the cached records within the given bounds, in cache order
WithinBounds(s, lo, hi) ==
    /\ lo # <<>> => /\ "min_players" \in DOMAIN s.metadata
                    /\ s.metadata["min_players"] >= lo[1]
    /\ hi # <<>> => /\ "max_players" \in DOMAIN s.metadata
                    /\ s.metadata["max_players"] <= hi[1]

FirstN(list, n) == SubSeq(list, 1, IF Len(list) < n THEN Len(list) ELSE n)

\* C10: a scenario search that gives only player bounds returns, in cache
\* order and cut at 50, exactly the cached records whose metadata has
\* min_players >= lo and max_players <= hi; a record lacking the key of a
\* given bound is left out, also when the bound is 0.
C10_PlayerFilter ==
    [][( /\ Responds
         /\ last'.op = "search"
         /\ SearchType(last'.p) = KindScenario
         /\ last'.p.name = <<>>
         /\ last'.p.difficulty = <<>> )
          => last'.records =
                FirstN(SelectSeq(cached_scenarios',
                                 LAMBDA s : WithinBounds(s, last'.p.min_players,
                                                         last'.p.max_players)),
                       50)
      ]_vars

\* of three cached records, one within the bounds 2..4, one outside and one
\* without player metadata, the search for 2..4 returned the first only
C10_Witness ==
    /\ last.op = "search"
    /\ last.p.min_players = <<2>>
    /\ last.p.max_players = <<4>>
    /\ Len(cached_scenarios) = 3
    /\ Len(last.records) = 1
    /\ last.records[1].metadata["min_players"] = 2

\* the title of s equals name up to case
TitleIs(s, name) == Lower(s.title) = Lower(name)

\* a scenario search by name only, fuzzy with min_similarity = 1.0, answers
OnlyExactFuzzy ==
    /\ Responds
    /\ last'.op = "search"
    /\ SearchType(last'.p) = KindScenario
    /\ last'.p.fuzzy
    /\ last'.p.min_similarity = 100
    /\ last'.p.min_players = <<>>
    /\ last'.p.max_players = <<>>
    /\ last'.p.difficulty = <<>>

\* C11 as claimed: for every query string X, the empty one included, the
\* fuzzy search at min_similarity 1.0 returns exactly the cached records
\* whose title equals X up to case.
C11_ExactForEveryName ==
    [][OnlyExactFuzzy
          => last'.records =
                FirstN(SelectSeq(cached_scenarios',
                                 LAMBDA s : TitleIs(s, last'.p.name)), 50)
      ]_vars

\* C11: for every non-empty query string X, the fuzzy search at
\* min_similarity 1.0 returns, in cache order and cut at 50, exactly the
\* cached records whose title equals X up to case; with an empty X the name
\* filter is off and every cached record is returned.
C11_ExactForNonEmptyName ==
    [][OnlyExactFuzzy
          => last'.records =
                IF last'.p.name # <<>>
                THEN FirstN(SelectSeq(cached_scenarios',
                                      LAMBDA s : TitleIs(s, last'.p.name)), 50)
                ELSE FirstN(cached_scenarios', 50)
      ]_vars

\* of two cached records the search for "AB" at 1.0 returned only the one
\* titled "Ab"
C11_Witness ==
    /\ last.op = "search"
    /\ last.p.fuzzy
    /\ last.p.min_similarity = 100
    /\ last.p.name = QueryAB
    /\ Len(cached_scenarios) >= 2
    /\ Len(last.records) = 1
    /\ last.records[1].title = TitleAb

\* the scenarios a search matches, sorted when fuzzy, before the truncation
Matching(p, scenarios) ==
    Sorted(p, DifficultyFilter(p, PlayerFilter(p, NameFilter(p, scenarios))))

\* the same for the cards of one answer of the card Fetcher
MatchingCards(p, cards) ==
    Sorted(p,
        FactionFilter(p,
            CardNameFilter(p, IF p.name # <<>> /\ p.fuzzy
                              THEN CardFuzzyMark(p, cards) ELSE cards)))

\* C12: every search answers 200 with at most 50 items; a scenario search
\* returns the first min(50, n) of the n matching records, in their order
\* after the filters and the sort, and a card search the first min(50, n)
\* of the matching cards of the Fetcher's answer.  (With one client the
\* cache changes only in the step that answers, so last and the cache are
\* those of the same search.)
C12_Truncation ==
    (last.op = "search")
       => /\ last.status = "200"
          /\ Len(last.records) <= 50
          /\ SearchType(last.p) = KindScenario
                => last.records = FirstN(Matching(last.p, cached_scenarios), 50)
          /\ SearchesCards(last)
                => \/ /\ last.cards = <<>>
                      /\ Len(last.records) = 1
                   \/ /\ last.cards # <<>>
                      /\ last.records =
                            FirstN(MatchingCards(last.p, last.cards), 50)

\* a search matching all 75 cached records returned the first 50 of them
C12_Witness ==
    /\ last.op = "search"
    /\ last.status = "200"
    /\ last.p.name = <<>>
    /\ Len(cached_scenarios) = 75
    /\ Len(last.records) = 50
    /\ last.records = SubSeq(cached_scenarios, 1, 50)

\* C13: a search whose type, lower-cased, is none of scenario, card and
\* investigator answers 200 with one record, whose only key is error and
\* whose message quotes the type as it was given.
C13_UnknownKind ==
    [][( /\ Responds
         /\ last'.op = "search"
         /\ SearchType(last'.p) \notin {KindScenario, KindCard, KindInvestigator} )
          => /\ last'.status = "200"
             /\ Len(last'.records) = 1
             /\ DOMAIN last'.records[1] = {"error"}
             /\ last'.records[1].error[1] = "Unknown search type: '"
             /\ last'.records[1].error[2] = last'.p.type
      ]_vars

\* a search for "Widget" was answered with the record that quotes "Widget"
C13_Witness ==
    /\ last.op = "search"
    /\ last.p.type = KindWidgetCaps
    /\ last.status = "200"
    /\ Len(last.records) = 1
    /\ last.records[1].error[2] = KindWidgetCaps

\* C14: a card or investigator search whose Fetcher gave no cards, for an
\* empty answer or a failed call, returns exactly the one record that says
\* no data is available; a scenario search whose fetch raised with the cache
\* empty returns the empty list.
C14_EmptySourceAsymmetry ==
    [][/\ ( /\ Responds
            /\ last'.op = "search"
            /\ SearchesCards(last')
            /\ last'.cards = <<>> )
                => /\ last'.status = "200"
                   /\ last'.records =
                         << [ error |-> <<"No ", SearchType(last'.p),
                                         " data available from ArkhamDB.">>,
                              type |-> SearchType(last'.p),
                              name_query |-> last'.p.name ] >>
       /\ ( /\ Responds
            /\ last'.op = "search"
            /\ SearchType(last'.p) = KindScenario
            /\ last'.fetched
            /\ last'.fetchKind \in RaiseKinds )
             => /\ last'.status = "200"
                /\ last'.records = <<>>
                /\ cached_scenarios' = <<>>
      ]_vars

\* an investigator search got the record that says no data is available
C14_Witness ==
    /\ last.op = "search"
    /\ SearchType(last.p) = KindInvestigator
    /\ Len(last.records) = 1
    /\ last.cards = <<>>
    /\ "error" \in DOMAIN last.records[1]
    /\ last.records[1].type = KindInvestigator

\* C15: in every state the cache is empty or is, record for record and
\* field for field, the whole batch one validated call of the scenario
\* Fetcher returned.
C15_OneGeneration ==
    \/ cached_scenarios = <<>>
    \/ \E e \in Scraped : Validate(e[2]) /\ cached_scenarios = e[2]

\* C16: cache_lock is held across a suspension, and a fetch is in flight,
\* only while the cache is empty; and a GET /scenarios answered from a state
\* whose cache holds a record returns that cache, unchanged, with no call of
\* the Fetcher, whether the caller got the lock at once or had queued for it.
C16_CacheHitNeverWaitsForFetch ==
    /\ []((locked \/ Fetching # {}) => cached_scenarios = <<>>)
    /\ [][/\ ( /\ cached_scenarios # <<>>
                /\ Responds
                /\ last'.op = "list_scenarios" )
                 => /\ ~last'.fetched
                    /\ last'.status = "200"
                    /\ last'.records = cached_scenarios
                    /\ cached_scenarios' = cached_scenarios
                    /\ FetchCount' = FetchCount
           /\ \A t \in Tasks :
                 (cached_scenarios # <<>> /\ pc[t] \in {"idle", "waiting"})
                    => pc'[t] # "fetching"
         ]_vars

\* a GET /scenarios that overlapped no fetch was served the cached list
\* while another caller was still queued for the lock
C16_Witness ==
    /\ last.op = "list_scenarios"
    /\ ~last.fetched
    /\ ~last.overlapped
    /\ last.records # <<>>
    /\ last.records = cached_scenarios
    /\ \E t \in Tasks : pc[t] = "waiting"

\* C17: in every state no two records of the cache carry the same id.
C17_UniqueIds ==
    \A i, j \in 1..Len(cached_scenarios) :
        cached_scenarios[i].id = cached_scenarios[j].id => i = j

\* the record as the scenario Fetcher returned it
AsFetched(s) == [k \in DOMAIN s \ {"similarity"} |-> s[k]]

Generation(cache) == [i \in 1..Len(cache) |-> AsFetched(cache[i])]

\* C18: the records a scenario search returns are those its own parameters
\* select from the fetched generation, whatever was searched before; and
\* GET /scenarios and the searches that are not fuzzy by name return no
\* record carrying a similarity score.
C18_SearchesDoNotInterfere ==
    /\ (last.op = "search" /\ SearchType(last.p) = KindScenario)
          => last.records =
                SearchScenarios(last.p, Generation(cached_scenarios)).results
    /\ ( /\ last.op \in {"search", "list_scenarios"}
         /\ ~(last.p.fuzzy /\ last.p.name # <<>>) )
          => \A i \in 1..Len(last.records) :
                ~HasKey(last.records[i], "similarity")

\* C19: the step that ends a fetch, whatever the fetch gave, leaves the lock
\* free; a held lock is released; and a task that is inside
\* get_cached_scenarios, queued for the lock or awaiting the Fetcher,
\* returns from it.
C19_EveryCallReturns ==
    /\ [][\A t \in Tasks :
             (pc[t] = "fetching" /\ pc'[t] # "fetching") => ~locked'
         ]_vars
    /\ locked ~> ~locked
    /\ \A t \in Tasks :
          /\ (pc[t] = "waiting") ~> (pc[t] # "waiting")
          /\ (pc[t] \in {"waiting", "fetching"}) ~> (pc[t] = "idle")

\* after a fetch that stored nothing one task is fetching again and another
\* is queued for the lock
C19_Witness ==
    /\ NotStored > 0
    /\ \E t, u \in Tasks : pc[t] = "fetching" /\ pc[u] = "waiting"

\* the ways the fetch of a detail page fails, and the page returned for each
DetailFailures == {"timeout", "request_error", "error"}

FailurePage(outcome) ==
    CASE outcome = "timeout" -> "error_page_timeout"
      [] outcome = "request_error" -> "error_page_request"
      [] outcome = "error" -> "error_page_unexpected"

\* C20: when the fetch of the detail page of a cached scenario times out,
\* meets a request error or raises anything else, the handler gets the error
\* page of that failure as text: GET /scenarios/{id} answers 200 with it,
\* read_resource returns it, and the cache is as it was.
C20_DetailFailureIsContent ==
    [][\A t \in Tasks, outcome \in DetailFailures :
          DetailReturn(t, outcome)
             => /\ HasId(cached_scenarios, req[t].id)
                   \/ req[t].op = "read_resource"
                /\ last'.op = req[t].op
                /\ last'.status = IF req[t].op = "get_scenario_detail"
                                  THEN "200" ELSE "returned"
                /\ last'.content.kind = FailurePage(outcome)
                /\ cached_scenarios' = cached_scenarios
                /\ pc'[t] = "idle"
      ]_vars

\* the detail page of a cached scenario timed out and GET /scenarios/{id}
\* answered 200 with the error page
C20_Witness ==
    /\ last.op = "get_scenario_detail"
    /\ HasId(cached_scenarios, last.id)
    /\ last.status = "200"
    /\ last.content.kind = "error_page_timeout"

=============================================================================
